---------------------------- MODULE Spec2Model ----------------------------
(***************************************************************************)
(* Model of the sports-news pipeline of "Python Script/main.py":           *)
(* search -> per article (document reference, scrape, categorize,         *)
(* summarize, upsert, pause) -> done, with the document store kept across  *)
(* invocations of the script.                                              *)
(*                                                                         *)
(* Text is modelled as a sequence of one-character strings, so that        *)
(* lower-casing, stripping, concatenation and substring search are         *)
(* computed the way the Python code computes them.                         *)
(***************************************************************************)
EXTENDS Integers, Sequences, FiniteSets, TLC

VARIABLES pc, run, api_key, db, model, feed, articles, i, loc, store,
          store0, lastData, writtenUrls, log, clock, sumTimes,
          searchStatus, lastPage, raised, lastPrompt

vars == <<pc, run, api_key, db, model, feed, articles, i, loc, store,
          store0, lastData, writtenUrls, log, clock, sumTimes,
          searchStatus, lastPage, raised, lastPrompt>>

(***************************************************************************)
(* Bounds of the model.                                                    *)
(***************************************************************************)
\* longest article list the search returns in Spec
MaxArticles == 2
\* invocations of the script in one behaviour of Spec
MaxRuns == 2
\* longest article list the search returns in SpecRate
MaxRateArticles == 6

(***************************************************************************)
(* Program constants.                                                      *)
(***************************************************************************)
\* time.sleep(13)
SleepSeconds == 13
\* "Ensure less than 5 AI calls per minute"
QuotaCalls == 5
QuotaWindowSeconds == 60
\* len(p.get_text().strip()) > 20
MinParagraphLen == 20
\* text[:5000]
MaxScrapedChars == 5000
\* len(scraped_text) > 200
MinContentLen == 200

\* Python's None for the fields that hold an atom (author, image URL)
None == "<None>"

(***************************************************************************)
(* Text helpers: str.lower, str.strip, " ".join, substring search.         *)
(***************************************************************************)
LowerChar(c) ==
    CASE c = "A" -> "a" [] c = "B" -> "b" [] c = "F" -> "f"
      [] c = "L" -> "l" [] c = "M" -> "m" [] c = "N" -> "n"
      [] c = "S" -> "s" [] c = "D" -> "d" [] c = "O" -> "o"
      [] OTHER -> c

LowerStr(s) == [k \in 1..Len(s) |-> LowerChar(s[k])]

RECURSIVE LStrip(_)
LStrip(s) == IF s # <<>> /\ Head(s) = " " THEN LStrip(Tail(s)) ELSE s

RECURSIVE RStrip(_)
RStrip(s) ==
    IF s # <<>> /\ s[Len(s)] = " " THEN RStrip(SubSeq(s, 1, Len(s) - 1)) ELSE s

Strip(s) == RStrip(LStrip(s))

\* needle in hay
Contains(hay, needle) ==
    \E k \in 1..(Len(hay) - Len(needle) + 1) :
        SubSeq(hay, k, k + Len(needle) - 1) = needle

RECURSIVE JoinSpace(_)
JoinSpace(ps) ==
    IF ps = <<>> THEN <<>>
    ELSE IF Len(ps) = 1 THEN ps[1]
    ELSE ps[1] \o <<" ">> \o JoinSpace(Tail(ps))

RECURSIVE Repeat(_, _)
Repeat(s, n) == IF n = 0 THEN <<>> ELSE s \o Repeat(s, n - 1)

Truncate(s, n) == SubSeq(s, 1, IF Len(s) < n THEN Len(s) ELSE n)

\* Python truthiness of an Optional[str] atom: None and "" are falsy
Truthy(v) == v # None /\ v # ""

(***************************************************************************)
(* The categorizer (main.py lines 115-121).                                *)
(***************************************************************************)
NBA == <<"N", "B", "A">>
MLB == <<"M", "L", "B">>
NFL == <<"N", "F", "L">>
Sports == <<"S", "p", "o", "r", "t", "s">>
Leagues == <<NBA, MLB, NFL>>

\* the concatenation without .lower()
SearchTextNoLower(title, desc, content) ==
    title \o <<" ">> \o desc \o <<" ">> \o content

\* f"{title} {desc} {content_for_ai}".lower()
SearchText(title, desc, content) ==
    LowerStr(title \o <<" ">> \o desc \o <<" ">> \o content)

RECURSIVE CategoryFrom(_, _)
CategoryFrom(search_text, k) ==
    IF k > Len(Leagues) THEN Sports
    ELSE IF Contains(search_text, LowerStr(Leagues[k])) THEN Leagues[k]
    ELSE CategoryFrom(search_text, k + 1)

Categorize(title, desc, content) ==
    CategoryFrom(SearchText(title, desc, content), 1)



(***************************************************************************)
(* The environment: what the search API, the article pages, the            *)
(* summarization service and the document store can answer.                *)
(***************************************************************************)
Url1 == "https://espn.com/a"
Url2 == "https://nba.com/b"

\* hashlib.md5(article_url.encode()).hexdigest() on the URLs of the model
md5_hexdigest(url) ==
    CASE url = Url1 -> "25b5142920381791a2393e145187d7a8"
      [] url = Url2 -> "64a9ee9ea4098fee8b8d610d757209fb"

\* article descriptors of the search API; description <<>> stands for a
\* missing or empty description (both falsy in Python)
ArticleA ==
    [source |-> "ESPN", title |-> <<"N", "B", "A">>, url |-> Url1,
     description |-> <<>>, author |-> None, urlToImage |-> None]
ArticleB ==
    [source |-> "NBA.com", title |-> <<"d", "r", "a", "f", "t">>, url |-> Url2,
     description |-> <<"M", "l", "b", " ", "n", "f", "l">>,
     author |-> "Ann", urlToImage |-> "api.png"]
ArticleC ==
    [source |-> "ESPN", title |-> <<"g", "o", "l", "f">>, url |-> Url1,
     description |-> <<"o", "p", "e", "n">>, author |-> "", urlToImage |-> None]

ArticlePool == {ArticleA, ArticleB, ArticleC}

RECURSIVE ListsUpTo(_, _)
ListsUpTo(S, n) ==
    IF n = 0 THEN {<<>>}
    ELSE LET shorter == ListsUpTo(S, n - 1)
         IN shorter \cup {Append(l, a) : l \in {x \in shorter : Len(x) = n - 1}, a \in S}

Feeds == ListsUpTo(ArticlePool, MaxArticles)
RateFeeds == {Repeat(<<ArticleB>>, n) : n \in 1..MaxRateArticles}

\* answers to requests.get(url, params=params)
SearchResponses(f) ==
    {[kind |-> "exception", status |-> 0, articles |-> <<>>],
     [kind |-> "http", status |-> 500, articles |-> <<>>],
     [kind |-> "http", status |-> 200, articles |-> f]}

\* a paragraph longer than MinContentLen characters
LongParagraph == Repeat(<<"n", "b", "a", " ", "n", "e", "w", "s", " ", ".">>, 25)

\* answers to requests.get(url, headers=headers, timeout=10), by name
PageNames == {"timeout", "status404", "malformed", "tagged", "plain"}
Page(name) ==
    CASE name = "timeout" ->
           [kind |-> "exception", status |-> 0, malformed |-> FALSE,
            paragraphs |-> <<>>, og_image |-> None,
            meta_author |-> None, article_author |-> None]
      [] name = "status404" ->
           [kind |-> "http", status |-> 404, malformed |-> FALSE,
            paragraphs |-> <<>>, og_image |-> None,
            meta_author |-> None, article_author |-> None]
      [] name = "malformed" ->
           [kind |-> "http", status |-> 200, malformed |-> TRUE,
            paragraphs |-> <<>>, og_image |-> None,
            meta_author |-> None, article_author |-> None]
      [] name = "tagged" ->
           [kind |-> "http", status |-> 200, malformed |-> FALSE,
            paragraphs |-> << <<" ", "a", "d", " ">>, LongParagraph >>,
            og_image |-> "og.png",
            meta_author |-> "Bob", article_author |-> None]
      [] name = "plain" ->
           [kind |-> "http", status |-> 200, malformed |-> FALSE,
            paragraphs |-> << <<"h", "i">> >>, og_image |-> None,
            meta_author |-> None, article_author |-> None]

\* the pages whose fetch fails: timeout, non-200 status, parse failure
FailedPages == {"timeout", "status404", "malformed"}

\* answers of model.generate_content(prompt)
SummaryResponses ==
    {[kind |-> "exception", text |-> <<>>],
     [kind |-> "ok", text |-> <<" ", "T", "w", "o", ".", " ">>]}

\* outcomes of doc_ref.set(...)
SetOutcomes == {"ok", "exception"}

DocId1 == md5_hexdigest(Url1)

\* contents of the collection before the first run: empty, or a document
\* written earlier that carries a field this script never writes
InitialStores ==
    {<<>>,
     DocId1 :> [title |-> <<"o", "l", "d">>, views |-> "7"]}

(***************************************************************************)
(* scrape_article_content (main.py lines 42-62).                           *)
(***************************************************************************)
\* the (None, None, None) of line 62; text_is_none marks a None text
NoneTriple ==
    [raises |-> FALSE, text_is_none |-> TRUE, text |-> <<>>,
     image_url |-> None, author |-> None]

\* [p.get_text().strip() for p in paragraphs if len(p.get_text().strip()) > 20]
RECURSIVE KeptParagraphs(_)
KeptParagraphs(ps) ==
    IF ps = <<>> THEN <<>>
    ELSE IF Len(Strip(Head(ps))) > MinParagraphLen
         THEN <<Strip(Head(ps))>> \o KeptParagraphs(Tail(ps))
         ELSE KeptParagraphs(Tail(ps))

\* soup.find("meta", name="author") or soup.find("meta", property="article:author"):
\* the first call passes "meta" for the parameter `name` of Tag.find and
\* passes name="author" for the same parameter, which Python rejects with
\* TypeError before the page is searched
FindAuthorTag(page) ==
    [raises |-> TRUE,
     content |-> IF page.meta_author # None THEN page.meta_author
                 ELSE page.article_author]

\* a fetcher without the try/except: the failure leaves the function
ScrapeRaising(page) ==
    IF page.kind = "exception" \/ page.status # 200 \/ page.malformed
        THEN [NoneTriple EXCEPT !.raises = TRUE]
        ELSE NoneTriple

ScrapeArticleContent(page) ==
    IF page.kind = "exception" THEN NoneTriple
    ELSE IF page.status = 200
    THEN IF page.malformed THEN NoneTriple
         ELSE LET text == JoinSpace(KeptParagraphs(page.paragraphs))
                  image_url == page.og_image
                  author_tag == FindAuthorTag(page)
              IN IF author_tag.raises THEN NoneTriple
                 ELSE [raises |-> FALSE, text_is_none |-> FALSE,
                       text |-> Truncate(text, MaxScrapedChars),
                       image_url |-> image_url,
                       author |-> author_tag.content]
    ELSE NoneTriple

(***************************************************************************)
(* Pieces of get_news_articles (main.py lines 64-153).                     *)
(***************************************************************************)
\* a guard that never stops the run
ModelMissingNever == FALSE

\* if not model
ModelMissing == ~model

\* a status test that accepts every answer
StatusOkAlways(resp) == TRUE

\* response.status_code == 200
StatusOk(resp) == resp.status = 200

\* a handler that swallows failures of the summarizer and of the store
OnExceptionContinue(cause) ==
    IF cause \in {"summarize", "persist"} THEN "Sleeping" ELSE "Fatal"

\* except Exception as e: raise Exception("Program stopped ...")
OnException(cause) == "Fatal"

\* article['description'] if article['description'] else "No description provided."
NoDescription ==
    <<"N", "o", " ", "d", "e", "s", "c", "r", "i", "p", "t", "i", "o", "n", " ",
      "p", "r", "o", "v", "i", "d", "e", "d", ".">>
Desc(article) ==
    IF article.description # <<>> THEN article.description ELSE NoDescription

\* scraped_text if scraped_text and len(scraped_text) > 200 else desc
ContentForAi(scraped, desc) ==
    IF ~scraped.text_is_none /\ scraped.text # <<>> /\ Len(scraped.text) > MinContentLen
        THEN scraped.text ELSE desc

\* if not author: author = backup_author  (and the same for image_url)
Fallback(value, backup) == IF ~Truthy(value) THEN backup ELSE value

\* article_data of lines 128-138
ArticleData(l) ==
    [source |-> l.source, title |-> l.title,
     author |-> IF Truthy(l.author) THEN l.author ELSE "Unknown",
     url |-> l.article_url, original_description |-> l.desc,
     image_url |-> l.image_url, ai_summary |-> l.ai_summary,
     category |-> l.category, timestamp |-> "SERVER_TIMESTAMP"]

\* a write that replaces the document
SetReplace(st, id, data) ==
    [d \in DOMAIN st \cup {id} |-> IF d = id THEN data ELSE st[d]]

\* doc_ref.set(article_data, merge=True)
SetMerge(st, id, data) ==
    LET old == IF id \in DOMAIN st THEN st[id] ELSE <<>>
        merged == [f \in DOMAIN old \cup DOMAIN data |->
                      IF f \in DOMAIN data THEN data[f] ELSE old[f]]
    IN [d \in DOMAIN st \cup {id} |-> IF d = id THEN merged ELSE st[d]]

\* an upload that is always skipped
ShouldUploadNever == FALSE

\* if db:
ShouldUpload == db

\* a pause that is left out before the last article
ShouldSleepEarly(k, n) == k < n - 1

\* if i < len(articles)
ShouldSleep(k, n) == k < n

(***************************************************************************)
(* State.                                                                  *)
(***************************************************************************)
LocInit ==
    [source |-> None, title |-> <<>>, article_url |-> None, desc |-> <<>>,
     author |-> None, image_url |-> None, doc_id |-> None,
     scraped |-> NoneTriple, content_for_ai |-> <<>>, category |-> <<>>,
     ai_summary |-> <<>>]

NoFailure == [cause |-> "none", at |-> 0]

\* the part of the state a new invocation of the script starts from
FreshRun ==
    /\ pc = "NotStarted"
    /\ articles = <<>>
    /\ i = 0
    /\ loc = LocInit
    /\ log = <<>>
    /\ clock = 0
    /\ sumTimes = <<>>
    /\ searchStatus = "none"
    /\ lastPage = "none"
    /\ raised = NoFailure
    /\ lastPrompt = <<>>

Init ==
    /\ FreshRun
    /\ run = 1
    /\ api_key \in BOOLEAN
    /\ db \in BOOLEAN
    /\ model \in BOOLEAN
    /\ feed \in Feeds
    /\ store \in InitialStores
    /\ store0 = store
    /\ lastData = <<>>
    /\ writtenUrls = {}

InitRate ==
    /\ FreshRun
    /\ run = MaxRuns
    /\ api_key \in BOOLEAN
    /\ db \in BOOLEAN
    /\ model \in BOOLEAN
    /\ feed \in RateFeeds
    /\ store = <<>>
    /\ store0 = store
    /\ lastData = <<>>
    /\ writtenUrls = {}

env == <<run, api_key, db, model, feed, store0>>
storeVars == <<store, lastData, writtenUrls>>

Terminal == {"Aborted", "NotRun", "SearchFailed", "NoArticles", "Done", "Fatal"}

(***************************************************************************)
(* Actions.                                                                *)
(***************************************************************************)
\* __main__ (lines 155-159) and the guard of get_news_articles (65-67)
Main ==
    /\ pc = "NotStarted"
    /\ pc' = IF api_key /\ (db \/ model)
                THEN IF ModelMissing THEN "Aborted" ELSE "Fetching"
                ELSE "NotRun"
    /\ UNCHANGED <<env, storeVars, articles, i, loc, log, clock, sumTimes,
                   searchStatus, lastPage, raised, lastPrompt>>

\* the search request and its outcome (lines 80-91, 150-153)
Search ==
    /\ pc = "Fetching"
    /\ \E resp \in SearchResponses(feed) :
        /\ log' = Append(log, <<"search", 0>>)
        /\ searchStatus' =
              IF resp.kind = "exception" THEN "exception"
              ELSE IF resp.status # 200 THEN "non200"
              ELSE IF resp.articles = <<>> THEN "empty" ELSE "ok"
        /\ IF resp.kind = "exception"
              THEN /\ raised' = [cause |-> "search", at |-> 0]
                   /\ pc' = OnException("search")
                   /\ UNCHANGED <<articles, i>>
              ELSE IF StatusOk(resp)
              THEN /\ articles' = resp.articles
                   /\ IF resp.articles = <<>>
                         THEN pc' = "NoArticles" /\ i' = i
                         ELSE pc' = "LoopHead" /\ i' = 1
                   /\ UNCHANGED raised
              ELSE /\ pc' = "SearchFailed"
                   /\ UNCHANGED <<articles, i, raised>>
    /\ UNCHANGED <<env, storeVars, loc, clock, sumTimes, lastPage, lastPrompt>>

\* the head of the loop body: the article's fields, doc_id and doc_ref
\* (lines 93-103); db.collection on an absent store raises AttributeError
MakeDocRef ==
    /\ pc = "LoopHead"
    /\ LET article == articles[i] IN
        /\ loc' = [loc EXCEPT !.source = article.source,
                              !.title = article.title,
                              !.article_url = article.url,
                              !.desc = Desc(article),
                              !.author = article.author,
                              !.image_url = article.urlToImage,
                              !.doc_id = md5_hexdigest(article.url)]
        /\ IF db
              THEN pc' = "Scraping" /\ UNCHANGED raised
              ELSE /\ raised' = [cause |-> "doc_ref", at |-> i]
                   /\ pc' = OnException("doc_ref")
    /\ UNCHANGED <<env, storeVars, articles, i, log, clock, sumTimes,
                   searchStatus, lastPage, lastPrompt>>

\* scrape and the choice of content, author and image (lines 105-113)
Scrape ==
    /\ pc = "Scraping"
    /\ \E name \in PageNames :
        LET scraped == ScrapeArticleContent(Page(name)) IN
        /\ lastPage' = name
        /\ log' = Append(log, <<"scrape", i>>)
        /\ IF scraped.raises
              THEN /\ raised' = [cause |-> "scrape", at |-> i]
                   /\ pc' = OnException("scrape")
                   /\ UNCHANGED loc
              ELSE /\ loc' = [loc EXCEPT
                                !.scraped = scraped,
                                !.content_for_ai = ContentForAi(scraped, loc.desc),
                                !.author = Fallback(loc.author, scraped.author),
                                !.image_url = Fallback(loc.image_url, scraped.image_url)]
                   /\ pc' = "Categorizing"
                   /\ UNCHANGED raised
    /\ UNCHANGED <<env, storeVars, articles, i, clock, sumTimes,
                   searchStatus, lastPrompt>>

\* the category (lines 115-121)
CategorizeArticle ==
    /\ pc = "Categorizing"
    /\ loc' = [loc EXCEPT !.category = Categorize(loc.title, loc.desc, loc.content_for_ai)]
    /\ log' = Append(log, <<"categorize", i>>)
    /\ pc' = "Summarizing"
    /\ UNCHANGED <<env, storeVars, articles, i, clock, sumTimes,
                   searchStatus, lastPage, raised, lastPrompt>>

\* summarize_article (lines 37-40, 123-125); generate_content may raise,
\* and it raises on an absent model
Summarize ==
    /\ pc = "Summarizing"
    /\ \E resp \in SummaryResponses :
        /\ log' = Append(log, <<"summarize", i>>)
        /\ sumTimes' = Append(sumTimes, clock)
        /\ lastPrompt' = <<loc.title, loc.content_for_ai>>
        /\ IF resp.kind = "exception" \/ ~model
              THEN /\ raised' = [cause |-> "summarize", at |-> i]
                   /\ pc' = OnException("summarize")
                   /\ UNCHANGED loc
              ELSE /\ loc' = [loc EXCEPT !.ai_summary = Strip(resp.text)]
                   /\ pc' = "Upserting"
                   /\ UNCHANGED raised
    /\ UNCHANGED <<env, storeVars, articles, i, clock, searchStatus, lastPage>>

\* article_data and the upload (lines 127-143); doc_ref.set may raise
Upsert ==
    /\ pc = "Upserting"
    /\ IF ShouldUpload
          THEN \E outcome \in SetOutcomes :
                /\ log' = Append(log, <<"upsert", i>>)
                /\ IF outcome = "ok"
                      THEN /\ store' = SetMerge(store, loc.doc_id, ArticleData(loc))
                           /\ lastData' = (loc.doc_id :> ArticleData(loc)) @@ lastData
                           /\ writtenUrls' = writtenUrls \cup {loc.article_url}
                           /\ pc' = "Sleeping"
                           /\ UNCHANGED raised
                      ELSE /\ raised' = [cause |-> "persist", at |-> i]
                           /\ pc' = OnException("persist")
                           /\ UNCHANGED storeVars
          ELSE /\ pc' = "Sleeping"
               /\ UNCHANGED <<storeVars, log, raised>>
    /\ UNCHANGED <<env, articles, i, loc, clock, sumTimes, searchStatus,
                   lastPage, lastPrompt>>

\* the pause and the step to the next article (lines 145-148, 93)
RateLimit ==
    /\ pc = "Sleeping"
    /\ IF ShouldSleep(i, Len(articles))
          THEN /\ clock' = clock + SleepSeconds
               /\ log' = Append(log, <<"sleep", i>>)
          ELSE UNCHANGED <<clock, log>>
    /\ IF i < Len(articles)
          THEN pc' = "LoopHead" /\ i' = i + 1
          ELSE pc' = "Done" /\ i' = i
    /\ UNCHANGED <<env, storeVars, articles, loc, sumTimes, searchStatus,
                   lastPage, raised, lastPrompt>>

\* the script is started again (it is run periodically); the collection
\* is all that is left of the run before
NewProcess ==
    /\ pc \in Terminal
    /\ run < MaxRuns
    /\ run' = run + 1
    /\ api_key' \in BOOLEAN
    /\ db' \in BOOLEAN
    /\ model' \in BOOLEAN
    /\ feed' \in Feeds
    /\ pc' = "NotStarted"
    /\ articles' = <<>>
    /\ i' = 0
    /\ loc' = LocInit
    /\ log' = <<>>
    /\ clock' = 0
    /\ sumTimes' = <<>>
    /\ searchStatus' = "none"
    /\ lastPage' = "none"
    /\ raised' = NoFailure
    /\ lastPrompt' = <<>>
    /\ UNCHANGED <<storeVars, store0>>

NextRun ==
    \/ Main
    \/ Search
    \/ MakeDocRef
    \/ Scrape
    \/ CategorizeArticle
    \/ Summarize
    \/ Upsert
    \/ RateLimit

Next == NextRun \/ NewProcess

Spec == Init /\ [][Next]_vars

SpecRate == InitRate /\ [][NextRun]_vars

(***************************************************************************)
(* The categorizer on its own: title, description and content are drawn    *)
(* from CatTexts and Categorize is applied to them.                        *)
(***************************************************************************)
CatTexts ==
    {<<"N", "B", "A">>,
     <<"m", "l", "b">>,
     <<"x", "N", "f", "L", "x">>,
     <<"g", "o", "l", "f">>,
     <<"n", "b">>,
     <<"a", " ", "N", "F">>,
     <<"l", " ", "M", "L">>}

InitCat ==
    /\ pc = "CatInput"
    /\ \E title \in CatTexts, desc \in CatTexts, content \in CatTexts :
          loc = [LocInit EXCEPT !.title = title, !.desc = desc,
                                !.content_for_ai = content]
    /\ run = MaxRuns
    /\ api_key = TRUE
    /\ db = TRUE
    /\ model = TRUE
    /\ feed = <<>>
    /\ articles = <<>>
    /\ i = 0
    /\ store = <<>>
    /\ store0 = <<>>
    /\ lastData = <<>>
    /\ writtenUrls = {}
    /\ log = <<>>
    /\ clock = 0
    /\ sumTimes = <<>>
    /\ searchStatus = "none"
    /\ lastPage = "none"
    /\ raised = NoFailure
    /\ lastPrompt = <<>>

CategorizeInput ==
    /\ pc = "CatInput"
    /\ loc' = [loc EXCEPT !.category = Categorize(loc.title, loc.desc, loc.content_for_ai)]
    /\ pc' = "CatDone"
    /\ UNCHANGED <<env, storeVars, articles, i, log, clock, sumTimes,
                   searchStatus, lastPage, raised, lastPrompt>>

NextCat == CategorizeInput

SpecCat == InitCat /\ [][NextCat]_vars

(***************************************************************************)
(* Helpers of the properties.                                              *)
(***************************************************************************)
\* number of events of a kind in the log of the current run
Count(kind) == Cardinality({e \in 1..Len(log) : log[e][1] = kind})

IsWork(e) == e[1] \in {"scrape", "categorize", "summarize", "upsert"}

\* the events of the per-article steps, in order
Work == SelectSeq(log, IsWork)

nba == <<"n", "b", "a">>
mlb == <<"m", "l", "b">>
nfl == <<"n", "f", "l">>

\* the page behind the last scrape answered 200 with parseable HTML
PageFetched == 
    /\ lastPage \in PageNames
    /\ Page(lastPage).kind = "http"
    /\ Page(lastPage).status = 200
    /\ ~Page(lastPage).malformed

\* the author and image the markup of that page declares
PageAuthor ==
    IF ~PageFetched THEN None
    ELSE IF Page(lastPage).meta_author # None THEN Page(lastPage).meta_author
    ELSE Page(lastPage).article_author
PageImage == IF PageFetched THEN Page(lastPage).og_image ELSE None

(***************************************************************************)
(* Properties.                                                             *)
(***************************************************************************)

\* C1: with no store but a model and a non-empty search result, the run
\* only skips persistence: it summarizes every article, writes nothing and
\* ends in Done without an error (runs in which the summarizer itself
\* fails are left aside).
C1_SkipsPersistenceOnly ==
    (~db /\ model /\ searchStatus = "ok" /\ pc \in Terminal
        /\ raised.cause # "summarize")
    => /\ pc = "Done"
       /\ raised = NoFailure
       /\ Count("summarize") = Len(articles)
       /\ Count("upsert") = 0

\* C2: with the model absent the run stops before the search: no search,
\* scrape, summarizer or store call is ever made, with or without a
\* store, and get_news_articles, when entered, goes to Aborted.
C2_NoModelNoCalls ==
    ~model
    => /\ log = <<>>
       /\ sumTimes = <<>>
       /\ articles = <<>>
       /\ pc \in {"NotStarted", "Aborted", "NotRun"}
       /\ (pc # "NotStarted" /\ api_key /\ db => pc = "Aborted")

C2_Witness == ~model /\ db /\ api_key /\ pc = "Aborted" /\ run = MaxRuns

\* C3: a failure of the summarizer or of the store write on article k is
\* fatal to the run: nothing is done for an article after k, and the
\* records written for the articles before k stay in the store as written.
C3_FailureAbortsRun ==
    raised.cause \in {"summarize", "persist"}
    => /\ pc = "Fatal"
       /\ i = raised.at
       /\ \A e \in 1..Len(log) : log[e][2] <= raised.at
       /\ Count("scrape") = raised.at
       /\ Count("summarize") = raised.at
       /\ Count("upsert") =
              IF raised.cause = "persist" THEN raised.at ELSE raised.at - 1
       /\ \A j \in 1..(raised.at - 1) :
            LET id == md5_hexdigest(articles[j].url) IN
            /\ id \in DOMAIN store
            /\ id \in DOMAIN lastData
            /\ \A f \in DOMAIN lastData[id] : store[id][f] = lastData[id][f]
            /\ store[id].url = articles[j].url

C3_Witness ==
    /\ raised = [cause |-> "persist", at |-> 2]
    /\ pc = "Fatal"
    /\ Count("upsert") = 2
    /\ md5_hexdigest(articles[1].url) \in DOMAIN store

\* C4: a failed content fetch never raises and yields (None, None, None);
\* the same article is then categorized and summarized with its description
\* as content and upserted, and the following articles are processed.
C4_ScrapeFailureSuppressed ==
    /\ raised.cause # "scrape"
    /\ (lastPage \in FailedPages
          /\ pc \in {"Categorizing", "Summarizing", "Upserting", "Sleeping"})
       => /\ loc.scraped = NoneTriple
          /\ loc.content_for_ai = loc.desc
          /\ loc.article_url = articles[i].url
          /\ log[Len(log)][2] = i
    /\ (lastPage \in FailedPages /\ pc \in {"Upserting", "Sleeping"})
       => /\ lastPrompt = <<loc.title, loc.desc>>
          /\ loc.category = Categorize(loc.title, loc.desc, loc.desc)
    /\ (lastPage \in FailedPages /\ pc = "Sleeping" /\ db)
       => /\ log[Len(log)] = <<"upsert", i>>
          /\ store[loc.doc_id].original_description = loc.desc
          /\ store[loc.doc_id].url = articles[i].url
    /\ pc = "Done" => Count("scrape") = Len(articles)

C4_Witness ==
    /\ lastPage = "timeout"
    /\ pc = "Scraping"
    /\ i = 2
    /\ Count("upsert") = 1

\* C5: scrape, summarizer and store calls only follow a search that
\* answered 200 with a non-empty list; after a non-200 answer or an empty
\* list the run ends with the one search request and nothing else, and no
\* error is raised.
C5_SearchGate ==
    /\ Count("search") <= 1
    /\ searchStatus = "non200"
       => pc = "SearchFailed" /\ log = << <<"search", 0>> >> /\ raised = NoFailure
    /\ searchStatus = "empty"
       => pc = "NoArticles" /\ log = << <<"search", 0>> >> /\ raised = NoFailure
    /\ (Count("scrape") + Count("summarize") + Count("upsert") > 0)
       => searchStatus = "ok" /\ log[1] = <<"search", 0>>

C5_Witness == searchStatus = "non200" /\ pc = "SearchFailed" /\ feed # <<>>

\* C6: the store holds exactly one record per distinct URL upserted (next
\* to the documents it held before), whatever the runs and the lists, and
\* an upsert merges: each record carries the fields of its last write, and
\* the fields that write did not name keep their earlier value.
C6_OneRecordPerUrl ==
    /\ DOMAIN lastData = {md5_hexdigest(u) : u \in writtenUrls}
    /\ Cardinality(DOMAIN lastData) = Cardinality(writtenUrls)
    /\ DOMAIN store = DOMAIN lastData \cup DOMAIN store0
    /\ \A id \in DOMAIN lastData :
          /\ \A f \in DOMAIN lastData[id] : store[id][f] = lastData[id][f]
          /\ store[id].url \in writtenUrls
          /\ md5_hexdigest(store[id].url) = id
    /\ \A id \in DOMAIN store0 : \A f \in DOMAIN store0[id] :
          (id \notin DOMAIN lastData \/ f \notin DOMAIN lastData[id])
          => (f \in DOMAIN store[id] /\ store[id][f] = store0[id][f])

C6_Witness ==
    /\ run = MaxRuns
    /\ DocId1 \in DOMAIN store0
    /\ writtenUrls = {Url1, Url2}
    /\ store[DocId1].views = "7"
    /\ store[DocId1].title = ArticleC.title
    /\ Count("upsert") = 2
    /\ Cardinality(DOMAIN store) = 2

\* C7: the persisted author (image) is the API value when present, else
\* the value scraped from a page that was fetched, else "Unknown" (absent).
C7_AuthorImageResolution ==
    (pc = "Sleeping" /\ db /\ log # <<>> /\ log[Len(log)] = <<"upsert", i>>)
    => LET a == articles[i]
           rec == store[loc.doc_id]
       IN /\ rec.author =
                 IF Truthy(a.author) THEN a.author
                 ELSE IF Truthy(PageAuthor) THEN PageAuthor
                 ELSE "Unknown"
          /\ rec.image_url =
                 IF Truthy(a.urlToImage) THEN a.urlToImage ELSE PageImage

\* C8: the category is exactly one of NBA, MLB, NFL, Sports: the first of
\* NBA, MLB, NFL whose lower-cased keyword occurs in the lower-cased
\* "title desc content", and Sports exactly when none occurs.
C8_Categorizer ==
    pc = "CatDone"
    => LET t == LowerStr(loc.title \o <<" ">> \o loc.desc \o <<" ">> \o loc.content_for_ai)
       IN /\ loc.category \in {NBA, MLB, NFL, Sports}
          /\ loc.category = NBA <=> Contains(t, nba)
          /\ loc.category = MLB <=> ~Contains(t, nba) /\ Contains(t, mlb)
          /\ loc.category = NFL
                <=> ~Contains(t, nba) /\ ~Contains(t, mlb) /\ Contains(t, nfl)
          /\ loc.category = Sports
                <=> ~Contains(t, nba) /\ ~Contains(t, mlb) /\ ~Contains(t, nfl)

C8_Witness ==
    /\ pc = "CatDone"
    /\ loc.category = MLB
    /\ loc.title = <<"x", "N", "f", "L", "x">>
    /\ loc.content_for_ai = <<"l", " ", "M", "L">>
    /\ loc.desc = <<"m", "l", "b">>

\* C9: consecutive summarizer calls of a run are separated by exactly one
\* pause of 13 seconds, no pause follows the last article, and no 60
\* seconds hold more than 5 summarizer calls.
C9_Throttle ==
    /\ \A j \in 1..(Len(sumTimes) - 1) : sumTimes[j + 1] - sumTimes[j] = SleepSeconds
    /\ \A p \in 1..Len(log) : \A q \in (p + 1)..Len(log) :
          (/\ log[p][1] = "summarize"
           /\ log[q][1] = "summarize"
           /\ \A r \in (p + 1)..(q - 1) : log[r][1] # "summarize")
          => Cardinality({r \in (p + 1)..(q - 1) : log[r][1] = "sleep"}) = 1
    /\ \A e \in 1..Len(log) : log[e][1] = "sleep" => log[e][2] < Len(articles)
    /\ pc = "Done" => Count("sleep") = Len(articles) - 1
    /\ \A j \in 1..(Len(sumTimes) - QuotaCalls) :
          sumTimes[j + QuotaCalls] - sumTimes[j] > QuotaWindowSeconds

C9_Witness ==
    /\ pc = "Done"
    /\ Len(sumTimes) = MaxRateArticles
    /\ Len(sumTimes) > QuotaCalls

\* C10: a run that reaches Done with a store has, for the articles in list
\* order, exactly scrape, categorize, summarize, upsert, each once and in
\* that order, article k's upsert before article k+1's scrape.
C10_OrderedOnce ==
    (pc = "Done" /\ db)
    => /\ Len(Work) = 4 * Len(articles)
       /\ \A k \in 1..Len(articles) :
            /\ Work[4 * (k - 1) + 1] = <<"scrape", k>>
            /\ Work[4 * (k - 1) + 2] = <<"categorize", k>>
            /\ Work[4 * (k - 1) + 3] = <<"summarize", k>>
            /\ Work[4 * (k - 1) + 4] = <<"upsert", k>>
       /\ \A k \in 1..Len(articles) :
            md5_hexdigest(articles[k].url) \in DOMAIN store

C10_Witness == pc = "Done" /\ db /\ Len(articles) = MaxArticles /\ run = MaxRuns

=============================================================================
